---- MODULE Spec2Model ----
(***************************************************************************)
(* c10/core/StorageImpl.cpp: the storage handle's data-pointer accessors,  *)
(* the StorageImplCreate extension registry and make_storage_impl.         *)
(***************************************************************************)
EXTENDS Integers, FiniteSets, Sequences, TLC

---------------------------------------------------------------------------
(* Bounds of the model. *)

\* Number of distinct non-null StorageImplCreateHelper function pointers.
NumBuilders == 2
\* Number of distinct non-null addresses a caller can supply as a buffer.
NumBuffers == 1
\* Number of allocators a caller can pass.
NumAllocators == 2
\* Largest byte size requested.
MaxSize == 1
\* Number of buffers the allocator / the copy-on-write routine can hand out.
MaxFresh == 2
\* Number of threads calling into the registry at the same time.
NumThreads == 2

---------------------------------------------------------------------------
(* Values. *)

\* The null function pointer / the null address.
nullptr == 0

\* c10::optional<at::Device> without a value.
nullopt == "nullopt"

PrivateUse1 == "PrivateUse1"

\* The device types that index the StorageImplCreate array.
DeviceTypes == {"CPU", PrivateUse1}

\* ska::flat_hash_set<c10::DeviceType> DeviceTypeAllowList{PrivateUse1}
DeviceTypeAllowList == {PrivateUse1}

Builders == 1..NumBuilders
FnPtrs == {nullptr} \cup Builders
Allocators == 1..NumAllocators
Sizes == 0..MaxSize

\* An at::DataPtr: the address it holds and its deleter context; a "cow"
\* context is what is_cow_data_ptr recognises.
DataPtr(addr, c) == [data |-> addr, ctx |-> c]

\* The buffers a caller of make_storage_impl can supply (null included).
SuppliedDataPtrs == {DataPtr(a, "plain") : a \in 0..NumBuffers}

\* The n-th address the external allocator / materialization hands out:
\* distinct from every supplied address and from every earlier fresh one.
FreshAddr(n) == NumBuffers + 1 + n

\* The errors the TORCH_CHECKs raise, named as in the specification.
NoError == "none"
DomainNotAllowedError == "DomainNotAllowedError"
AlreadyRegisteredError == "AlreadyRegisteredError"
NullDataAccessError == "NullDataAccessError"

---------------------------------------------------------------------------
(* State. *)

VARIABLES
  StorageImplCreate,          \* the registry array, indexed by device type
  data_ptr_,                  \* the handle's at::DataPtr
  has_data_ptr_check_,        \* the handle's fast-path flag
  throw_on_mutable_data_ptr_, \* the handle's strict flag
  fresh,                      \* buffers handed out so far by allocate/materialize
  cow_calls,                  \* materializations performed on the handle so far
  mutable_called,             \* mutable_data()/mutable_data_ptr() was called
  start,                      \* the handle as constructed (never changes)
  first,                      \* per device type: the first non-null builder registered
  threads,                    \* the registry calls in progress on concurrent threads
  last                        \* the last call: its arguments and its outcome

vars == <<StorageImplCreate, data_ptr_, has_data_ptr_check_,
          throw_on_mutable_data_ptr_, fresh, cow_calls, mutable_called,
          start, first, threads, last>>

handle_vars == <<data_ptr_, has_data_ptr_check_, throw_on_mutable_data_ptr_>>

---------------------------------------------------------------------------
(* The storage handle. *)

\* DataPtr::get() / DataPtr::mutable_get(): the address held.
get(dp) == dp.data

\* StorageImpl::is_cow(): the buffer is a copy-on-write (shared) one.
is_cow(dp) == dp.ctx = "cow"

\* The access mode of section 3, read off the handle's fields.
AccessModeOf(check, throw, dp) ==
  IF check /\ throw THEN "ReadOnlyStrict"
  ELSE IF check /\ is_cow(dp) THEN "CopyOnWritePending"
  ELSE "Normal"

access_mode == AccessModeOf(has_data_ptr_check_, throw_on_mutable_data_ptr_, data_ptr_)

\* The handles a program can hold: has_data_ptr_check_ is kept equal to
\* "strict or copy-on-write" whenever a flag or the buffer is set.
Handles ==
  { h \in [data_ptr_ : {DataPtr(a, c) : a \in 0..NumBuffers, c \in {"plain", "cow"}},
           throw_on_mutable_data_ptr_ : BOOLEAN,
           has_data_ptr_check_ : BOOLEAN] :
      /\ h.has_data_ptr_check_ = (h.throw_on_mutable_data_ptr_ \/ is_cow(h.data_ptr_))
      /\ is_cow(h.data_ptr_) => get(h.data_ptr_) # nullptr }

\* throwNullDataPtrError(): TORCH_CHECK(false, ...) always raises.
throwNullDataPtrError == NullDataAccessError

\* maybe_materialize_cow(): a copy-on-write buffer is replaced by a fresh,
\* exclusively owned copy and the fast-path flag is refreshed; any other
\* buffer is left alone.
maybe_materialize_cow ==
  IF is_cow(data_ptr_)
  THEN [data_ptr_ |-> DataPtr(FreshAddr(fresh), "plain"),
        has_data_ptr_check_ |-> throw_on_mutable_data_ptr_,
        cow |-> 1]
  ELSE [data_ptr_ |-> data_ptr_,
        has_data_ptr_check_ |-> has_data_ptr_check_,
        cow |-> 0]

\* The outcome of an accessor: the error raised (if any), the handle's
\* buffer and fast-path flag afterwards, the materializations performed and
\* the DataPtr / address returned.
Outcome(e, dp, check, n, rdp, raddr) ==
  [err |-> e, data_ptr_ |-> dp, has_data_ptr_check_ |-> check, cow |-> n,
   dp |-> rdp, addr |-> raddr]

NoDataPtr == DataPtr(nullptr, "plain")

Raised(e) == Outcome(e, data_ptr_, has_data_ptr_check_, 0, NoDataPtr, nullptr)

\* mutable_data() without the throw_on_mutable_data_ptr_ check.
mutable_data_NoThrow ==
  IF has_data_ptr_check_
  THEN LET m == maybe_materialize_cow
       IN Outcome(NoError, m.data_ptr_, m.has_data_ptr_check_, m.cow,
                  NoDataPtr, get(m.data_ptr_))
  ELSE Outcome(NoError, data_ptr_, has_data_ptr_check_, 0, NoDataPtr,
               get(data_ptr_))

\* mutable_data() without the call of maybe_materialize_cow().
mutable_data_NoMaterialize ==
  IF has_data_ptr_check_ /\ throw_on_mutable_data_ptr_
  THEN Raised(throwNullDataPtrError)
  ELSE Outcome(NoError, data_ptr_, has_data_ptr_check_, 0, NoDataPtr,
               get(data_ptr_))

\* mutable_data() that copies the buffer on every call, shared or not.
mutable_data_CopyAlways ==
  IF has_data_ptr_check_ /\ throw_on_mutable_data_ptr_
  THEN Raised(throwNullDataPtrError)
  ELSE Outcome(NoError, DataPtr(FreshAddr(fresh), "plain"),
               throw_on_mutable_data_ptr_, 1, NoDataPtr, FreshAddr(fresh))

\* data() that goes through the checks of mutable_data().
data_Materializes ==
  IF has_data_ptr_check_ /\ ~throw_on_mutable_data_ptr_
  THEN LET m == maybe_materialize_cow
       IN Outcome(NoError, m.data_ptr_, m.has_data_ptr_check_, m.cow,
                  NoDataPtr, get(m.data_ptr_))
  ELSE Outcome(NoError, data_ptr_, has_data_ptr_check_, 0, NoDataPtr,
               get(data_ptr_))

\* mutable_data() that takes the address before it materializes.
mutable_data_StalePtr ==
  IF has_data_ptr_check_
  THEN IF throw_on_mutable_data_ptr_
       THEN Raised(throwNullDataPtrError)
       ELSE LET m == maybe_materialize_cow
            IN Outcome(NoError, m.data_ptr_, m.has_data_ptr_check_, m.cow,
                       NoDataPtr, get(data_ptr_))
  ELSE Outcome(NoError, data_ptr_, has_data_ptr_check_, 0, NoDataPtr,
               get(data_ptr_))

\* mutable_data() that calls maybe_materialize_cow() before the throw check.
mutable_data_MaterializeFirst ==
  IF has_data_ptr_check_
  THEN LET m == maybe_materialize_cow
       IN IF throw_on_mutable_data_ptr_
          THEN Outcome(throwNullDataPtrError, m.data_ptr_,
                       m.has_data_ptr_check_, m.cow, NoDataPtr, nullptr)
          ELSE Outcome(NoError, m.data_ptr_, m.has_data_ptr_check_, m.cow,
                       NoDataPtr, get(m.data_ptr_))
  ELSE Outcome(NoError, data_ptr_, has_data_ptr_check_, 0, NoDataPtr,
               get(data_ptr_))

\* mutable_data() that does not look at has_data_ptr_check_.
mutable_data_Ungated ==
  IF throw_on_mutable_data_ptr_
  THEN Raised(throwNullDataPtrError)
  ELSE LET m == maybe_materialize_cow
       IN Outcome(NoError, m.data_ptr_, m.has_data_ptr_check_, m.cow,
                  NoDataPtr, get(m.data_ptr_))

\* at::DataPtr& StorageImpl::mutable_data_ptr()
mutable_data_ptr ==
  IF has_data_ptr_check_
  THEN IF throw_on_mutable_data_ptr_
       THEN Raised(throwNullDataPtrError)
       ELSE LET m == maybe_materialize_cow
            IN Outcome(NoError, m.data_ptr_, m.has_data_ptr_check_, m.cow,
                       m.data_ptr_, nullptr)
  ELSE Outcome(NoError, data_ptr_, has_data_ptr_check_, 0, data_ptr_, nullptr)

\* const at::DataPtr& StorageImpl::data_ptr() const
data_ptr ==
  Outcome(NoError, data_ptr_, has_data_ptr_check_, 0, data_ptr_, nullptr)

\* const void* StorageImpl::data() const
data ==
  Outcome(NoError, data_ptr_, has_data_ptr_check_, 0, NoDataPtr, get(data_ptr_))

\* void* StorageImpl::mutable_data()
mutable_data ==
  IF has_data_ptr_check_
  THEN IF throw_on_mutable_data_ptr_
       THEN Raised(throwNullDataPtrError)
       ELSE LET m == maybe_materialize_cow
            IN Outcome(NoError, m.data_ptr_, m.has_data_ptr_check_, m.cow,
                       NoDataPtr, get(m.data_ptr_))
  ELSE Outcome(NoError, data_ptr_, has_data_ptr_check_, 0, NoDataPtr,
               get(data_ptr_))

---------------------------------------------------------------------------
(* The extension registry. *)

\* SetStorageImplCreate without its second TORCH_CHECK: a registered slot is
\* overwritten.
SetStorageImplCreate_Overwrite(t, fptr) ==
  IF ~(t \in DeviceTypeAllowList)
  THEN [err |-> DomainNotAllowedError, StorageImplCreate |-> StorageImplCreate]
  ELSE [err |-> NoError,
        StorageImplCreate |-> [StorageImplCreate EXCEPT ![t] = fptr]]

\* SetStorageImplCreate without its allow-list TORCH_CHECK.
SetStorageImplCreate_NoAllowList(t, fptr) ==
  IF ~(StorageImplCreate[t] = nullptr)
  THEN [err |-> AlreadyRegisteredError, StorageImplCreate |-> StorageImplCreate]
  ELSE [err |-> NoError,
        StorageImplCreate |-> [StorageImplCreate EXCEPT ![t] = fptr]]

\* SetStorageImplCreate that refuses a null function pointer.
SetStorageImplCreate_RejectNull(t, fptr) ==
  IF ~(t \in DeviceTypeAllowList)
  THEN [err |-> DomainNotAllowedError, StorageImplCreate |-> StorageImplCreate]
  ELSE IF ~(StorageImplCreate[t] = nullptr) \/ fptr = nullptr
  THEN [err |-> AlreadyRegisteredError, StorageImplCreate |-> StorageImplCreate]
  ELSE [err |-> NoError,
        StorageImplCreate |-> [StorageImplCreate EXCEPT ![t] = fptr]]

\* void SetStorageImplCreate(DeviceType t, StorageImplCreateHelper fptr):
\* the error raised (if any) and the registry array afterwards.
SetStorageImplCreate(t, fptr) ==
  IF ~(t \in DeviceTypeAllowList)
  THEN [err |-> DomainNotAllowedError, StorageImplCreate |-> StorageImplCreate]
  ELSE IF ~(StorageImplCreate[t] = nullptr)
  THEN [err |-> AlreadyRegisteredError, StorageImplCreate |-> StorageImplCreate]
  ELSE [err |-> NoError,
        StorageImplCreate |-> [StorageImplCreate EXCEPT ![t] = fptr]]

\* StorageImplCreateHelper GetStorageImplCreate(DeviceType t)
GetStorageImplCreate(t) == StorageImplCreate[t]

---------------------------------------------------------------------------
(* The construction factory. *)

\* The arguments of make_storage_impl other than the device.
Args == [size_bytes : Sizes, data_ptr : SuppliedDataPtrs,
         allocator : Allocators, resizable : BOOLEAN]

\* A handle as a construction routine leaves it: who built it (nullptr for
\* the StorageImpl constructor), its fields, and the allocate() call made
\* for it (allocator nullptr: none).
Built(fn, size, dp, alloc, rs, from, n) ==
  [by |-> fn, size_bytes |-> size, data_ptr |-> dp, allocator |-> alloc,
   resizable |-> rs, alloc_from |-> from, alloc_size |-> n]

\* No handle (the call built nothing).
NoObj == Built(nullptr, 0, NoDataPtr, nullptr, FALSE, nullptr, 0)

\* Allocator::allocate(n): a fresh buffer.
allocate(alloc, n) == DataPtr(FreshAddr(fresh), "plain")

\* StorageImpl(use_byte_size, size_bytes, data_ptr, allocator, resizable)
StorageImplOwning(size, dp, alloc, rs) ==
  Built(nullptr, size, dp, alloc, rs, nullptr, 0)

\* StorageImpl(use_byte_size, size_bytes, allocator, resizable): obtains
\* its buffer from the allocator.
StorageImplAllocating(size, alloc, rs) ==
  Built(nullptr, size, allocate(alloc, size), alloc, rs, alloc, size)

\* What a registered builder returns: a handle of its own making, which
\* records the builder and the arguments it was called with.
CallBuilder(fptr, size, dp, alloc, rs) ==
  Built(fptr, size, dp, alloc, rs, nullptr, 0)

\* The outcome of make_storage_impl: the error raised (if any), the handle
\* returned, the registry lookups and the default constructions performed.
Made(e, o, looks, defs) ==
  [err |-> e, obj |-> o, lookups |-> looks, defaults |-> defs]

\* make_storage_impl that consults the PrivateUse1 slot when no device is
\* given.
make_storage_impl_AlwaysLookup(size_bytes, dp, allocator, resizable, device_opt) ==
  LET fptr == IF device_opt # nullopt
              THEN GetStorageImplCreate(device_opt)
              ELSE GetStorageImplCreate(PrivateUse1)
  IN IF fptr # nullptr
     THEN Made(NoError, CallBuilder(fptr, size_bytes, dp, allocator, resizable), 1, 0)
     ELSE IF get(dp) # nullptr
     THEN Made(NoError, StorageImplOwning(size_bytes, dp, allocator, resizable), 1, 1)
     ELSE Made(NoError, StorageImplAllocating(size_bytes, allocator, resizable), 1, 1)

\* make_storage_impl that hands the builder an already moved-from (null)
\* buffer.
make_storage_impl_MovedFrom(size_bytes, dp, allocator, resizable, device_opt) ==
  LET has_value == device_opt # nullopt
      fptr == IF has_value THEN GetStorageImplCreate(device_opt) ELSE nullptr
      lookups == IF has_value THEN 1 ELSE 0
  IN IF fptr # nullptr
     THEN Made(NoError,
               CallBuilder(fptr, size_bytes, NoDataPtr, allocator, resizable),
               lookups, 0)
     ELSE IF get(dp) # nullptr
     THEN Made(NoError, StorageImplOwning(size_bytes, dp, allocator, resizable),
               lookups, 1)
     ELSE Made(NoError, StorageImplAllocating(size_bytes, allocator, resizable),
               lookups, 1)

\* make_storage_impl that insists on a registered builder once a device is
\* given.
make_storage_impl_RequireBuilder(size_bytes, dp, allocator, resizable, device_opt) ==
  LET has_value == device_opt # nullopt
      fptr == IF has_value THEN GetStorageImplCreate(device_opt) ELSE nullptr
      lookups == IF has_value THEN 1 ELSE 0
  IN IF fptr # nullptr
     THEN Made(NoError,
               CallBuilder(fptr, size_bytes, dp, allocator, resizable),
               lookups, 0)
     ELSE IF has_value
     THEN Made("NoBuilderError", NoObj, lookups, 0)
     ELSE IF get(dp) # nullptr
     THEN Made(NoError, StorageImplOwning(size_bytes, dp, allocator, resizable),
               lookups, 1)
     ELSE Made(NoError, StorageImplAllocating(size_bytes, allocator, resizable),
               lookups, 1)

\* make_storage_impl whose default path always allocates.
make_storage_impl_AlwaysAllocate(size_bytes, dp, allocator, resizable, device_opt) ==
  LET has_value == device_opt # nullopt
      fptr == IF has_value THEN GetStorageImplCreate(device_opt) ELSE nullptr
      lookups == IF has_value THEN 1 ELSE 0
  IN IF fptr # nullptr
     THEN Made(NoError,
               CallBuilder(fptr, size_bytes, dp, allocator, resizable),
               lookups, 0)
     ELSE Made(NoError, StorageImplAllocating(size_bytes, allocator, resizable),
               lookups, 1)

\* c10::intrusive_ptr<StorageImpl> make_storage_impl(use_byte_size,
\*   size_bytes, data_ptr, allocator, resizable, device_opt)
make_storage_impl(size_bytes, dp, allocator, resizable, device_opt) ==
  LET has_value == device_opt # nullopt
      fptr == IF has_value THEN GetStorageImplCreate(device_opt) ELSE nullptr
      lookups == IF has_value THEN 1 ELSE 0
  IN IF fptr # nullptr
     THEN Made(NoError,
               CallBuilder(fptr, size_bytes, dp, allocator, resizable),
               lookups, 0)
     ELSE IF get(dp) # nullptr
     THEN Made(NoError, StorageImplOwning(size_bytes, dp, allocator, resizable),
               lookups, 1)
     ELSE Made(NoError, StorageImplAllocating(size_bytes, allocator, resizable),
               lookups, 1)

---------------------------------------------------------------------------
(* Calls. *)

NoArgs == [size_bytes |-> 0, data_ptr |-> NoDataPtr, allocator |-> nullptr,
           resizable |-> FALSE]

\* The record of a call.
Call(name, e, dev, fn, raddr, rdp, n, looks, defs, a, o) ==
  [op |-> name, err |-> e, dev |-> dev, fptr |-> fn, addr |-> raddr,
   dp |-> rdp, cow |-> n, lookups |-> looks, defaults |-> defs,
   args |-> a, obj |-> o]

Init ==
  /\ StorageImplCreate = [t \in DeviceTypes |-> nullptr]
  /\ \E h \in Handles :
       /\ data_ptr_ = h.data_ptr_
       /\ has_data_ptr_check_ = h.has_data_ptr_check_
       /\ throw_on_mutable_data_ptr_ = h.throw_on_mutable_data_ptr_
       /\ start = h
  /\ fresh = 0
  /\ cow_calls = 0
  /\ mutable_called = FALSE
  /\ first = [t \in DeviceTypes |-> nullptr]
  /\ threads = <<>>
  /\ last = Call("init", NoError, nullopt, nullptr, nullptr, NoDataPtr, 0, 0,
                 0, NoArgs, NoObj)

\* An accessor call on the handle with outcome r.
Access(name, r) ==
  /\ fresh + r.cow <= MaxFresh
  /\ data_ptr_' = r.data_ptr_
  /\ has_data_ptr_check_' = r.has_data_ptr_check_
  /\ fresh' = fresh + r.cow
  /\ cow_calls' = cow_calls + r.cow
  /\ last' = Call(name, r.err, nullopt, nullptr, r.addr, r.dp, r.cow, 0, 0,
                  NoArgs, NoObj)
  /\ UNCHANGED <<StorageImplCreate, throw_on_mutable_data_ptr_, start, first,
                 threads>>

CallMutableDataPtr ==
  /\ mutable_called' = TRUE
  /\ Access("mutable_data_ptr", mutable_data_ptr)

CallMutableData ==
  /\ mutable_called' = TRUE
  /\ Access("mutable_data", mutable_data)

CallDataPtr ==
  /\ Access("data_ptr", data_ptr)
  /\ UNCHANGED mutable_called

CallData ==
  /\ Access("data", data)
  /\ UNCHANGED mutable_called

CallSetStorageImplCreate ==
  \E t \in DeviceTypes, fptr \in FnPtrs :
    LET r == SetStorageImplCreate(t, fptr)
    IN /\ StorageImplCreate' = r.StorageImplCreate
       /\ last' = Call("SetStorageImplCreate", r.err, t, fptr, nullptr,
                       NoDataPtr, 0, 0, 0, NoArgs, NoObj)
       /\ first' = IF r.err = NoError /\ fptr # nullptr /\ first[t] = nullptr
                   THEN [first EXCEPT ![t] = fptr]
                   ELSE first
       /\ UNCHANGED <<handle_vars, fresh, cow_calls, mutable_called, start,
                      threads>>

CallGetStorageImplCreate ==
  \E t \in DeviceTypes :
    /\ last' = Call("GetStorageImplCreate", NoError, t, GetStorageImplCreate(t),
                    nullptr, NoDataPtr, 0, 1, 0, NoArgs, NoObj)
    /\ UNCHANGED <<StorageImplCreate, handle_vars, fresh, cow_calls,
                   mutable_called, start, first, threads>>

CallMakeStorageImpl ==
  \E a \in Args, device_opt \in DeviceTypes \cup {nullopt} :
    LET r == make_storage_impl(a.size_bytes, a.data_ptr, a.allocator,
                               a.resizable, device_opt)
        allocs == IF r.obj.alloc_from # nullptr THEN 1 ELSE 0
    IN /\ fresh + allocs <= MaxFresh
       /\ fresh' = fresh + allocs
       /\ last' = Call("make_storage_impl", r.err, device_opt, nullptr,
                       nullptr, NoDataPtr, 0, r.lookups, r.defaults, a, r.obj)
       /\ UNCHANGED <<StorageImplCreate, handle_vars, cow_calls,
                      mutable_called, start, first, threads>>

Next ==
  \/ CallMutableDataPtr
  \/ CallMutableData
  \/ CallDataPtr
  \/ CallData
  \/ CallSetStorageImplCreate
  \/ CallGetStorageImplCreate
  \/ CallMakeStorageImpl

Spec == Init /\ [][Next]_vars

---------------------------------------------------------------------------
(* The extension registry: properties. *)

\* C1: for an allow-listed device type, the first SetStorageImplCreate with a
\* builder b1 succeeds and stores b1; every later SetStorageImplCreate for
\* that type raises AlreadyRegisteredError, and GetStorageImplCreate returns
\* b1 both before and after the failed call.
C1_RegisterOnce ==
  [][ \A t \in DeviceTypeAllowList :
        (last'.op = "SetStorageImplCreate" /\ last'.dev = t) =>
          /\ (first[t] = nullptr /\ last'.fptr # nullptr) =>
               /\ last'.err = NoError
               /\ GetStorageImplCreate(t)' = last'.fptr
          /\ first[t] # nullptr =>
               /\ last'.err = AlreadyRegisteredError
               /\ GetStorageImplCreate(t) = first[t]
               /\ GetStorageImplCreate(t)' = first[t] ]_vars

\* A second registration with a different builder has just failed and the
\* first builder is still the one looked up.
C1_Witness ==
  /\ last.op = "SetStorageImplCreate"
  /\ last.dev = PrivateUse1
  /\ last.err = AlreadyRegisteredError
  /\ last.fptr # nullptr
  /\ first[PrivateUse1] # nullptr
  /\ last.fptr # first[PrivateUse1]
  /\ GetStorageImplCreate(PrivateUse1) = first[PrivateUse1]

\* C2: in every reachable state, SetStorageImplCreate for a device type
\* outside the allow-list raises DomainNotAllowedError whatever the builder
\* and the slot are, and GetStorageImplCreate for that type returns nullptr.
C2_NotAllowListed ==
  \A t \in DeviceTypes \ DeviceTypeAllowList :
    /\ GetStorageImplCreate(t) = nullptr
    /\ \A fptr \in FnPtrs :
         SetStorageImplCreate(t, fptr).err = DomainNotAllowedError
    /\ (last.op = "SetStorageImplCreate" /\ last.dev = t) =>
         last.err = DomainNotAllowedError

\* A registration for CPU has just been refused while PrivateUse1 holds a
\* builder.
C2_Witness ==
  /\ last.op = "SetStorageImplCreate"
  /\ last.dev = "CPU"
  /\ last.fptr # nullptr
  /\ last.err = DomainNotAllowedError
  /\ GetStorageImplCreate(PrivateUse1) # nullptr
  /\ GetStorageImplCreate("CPU") = nullptr

---------------------------------------------------------------------------
(* The storage handle: properties. *)

start_mode ==
  AccessModeOf(start.has_data_ptr_check_, start.throw_on_mutable_data_ptr_,
               start.data_ptr_)

MutableOps == {"mutable_data", "mutable_data_ptr"}

\* C3: a ReadOnlyStrict handle stays ReadOnlyStrict; in every state reached,
\* whatever calls came before, data() succeeds and both mutable_data() and
\* mutable_data_ptr() raise NullDataAccessError.
C3_ReadOnlyStrict ==
  /\ start_mode = "ReadOnlyStrict" => access_mode = "ReadOnlyStrict"
  /\ access_mode = "ReadOnlyStrict" =>
       /\ data.err = NoError
       /\ data.addr = get(data_ptr_)
       /\ mutable_data.err = NullDataAccessError
       /\ mutable_data_ptr.err = NullDataAccessError
       /\ last.op \in MutableOps => last.err = NullDataAccessError
       /\ last.op = "data" => last.err = NoError

\* A read has just succeeded on a ReadOnlyStrict handle after a mutable
\* access was refused.
C3_Witness ==
  /\ start_mode = "ReadOnlyStrict"
  /\ mutable_called
  /\ last.op = "data"
  /\ last.err = NoError
  /\ mutable_data.err = NullDataAccessError

\* C4: on a handle constructed CopyOnWritePending, materialization is invoked
\* exactly once, by the first mutable_data()/mutable_data_ptr() call: none
\* before it (reads do not materialize), the mode is Normal after it, and no
\* later mutable call materializes again.
C4_MaterializeOnce ==
  start_mode = "CopyOnWritePending" =>
    /\ cow_calls = IF mutable_called THEN 1 ELSE 0
    /\ access_mode = IF mutable_called THEN "Normal" ELSE "CopyOnWritePending"
    /\ mutable_called => (mutable_data.cow = 0 /\ mutable_data_ptr.cow = 0)
    /\ ~mutable_called => (mutable_data.cow = 1 /\ mutable_data_ptr.cow = 1)
    /\ (last.op \in MutableOps /\ last.cow = 1) =>
         (access_mode = "Normal" /\ cow_calls = 1)

\* A second mutable call has just returned without materializing.
C4_Witness ==
  /\ start_mode = "CopyOnWritePending"
  /\ cow_calls = 1
  /\ last.op \in MutableOps
  /\ last.err = NoError
  /\ last.cow = 0
  /\ access_mode = "Normal"

\* C5: on a Normal handle mutable_data() returns the address data() returns
\* (and mutable_data_ptr() the buffer holding it), materializes nothing and
\* leaves the buffer and the access mode as they are.
C5_NormalMutable ==
  access_mode = "Normal" =>
    /\ mutable_data.err = NoError
    /\ mutable_data.addr = data.addr
    /\ mutable_data.cow = 0
    /\ mutable_data.data_ptr_ = data_ptr_
    /\ AccessModeOf(mutable_data.has_data_ptr_check_,
                    throw_on_mutable_data_ptr_, mutable_data.data_ptr_) = "Normal"
    /\ mutable_data_ptr.err = NoError
    /\ get(mutable_data_ptr.dp) = data.addr
    /\ mutable_data_ptr.cow = 0
    /\ mutable_data_ptr.data_ptr_ = data_ptr_
    /\ (start_mode = "Normal" /\ last.op = "mutable_data") =>
         /\ last.addr = get(start.data_ptr_)
         /\ last.cow = 0
         /\ data_ptr_ = start.data_ptr_

\* mutable_data() has just returned the original buffer of a Normal handle.
C5_Witness ==
  /\ start_mode = "Normal"
  /\ get(start.data_ptr_) # nullptr
  /\ last.op = "mutable_data"
  /\ last.err = NoError
  /\ last.addr = data.addr
  /\ last.addr = get(start.data_ptr_)
  /\ cow_calls = 0

\* C6: data() and data_ptr() return the current buffer and change neither the
\* buffer nor the flags in any access mode (CopyOnWritePending included: no
\* materialization); every step that changes the buffer or a flag is a
\* mutable_data()/mutable_data_ptr() call.
C6_ReadOnlyAccessors ==
  [][ /\ ~(last'.op \in MutableOps) =>
           (UNCHANGED handle_vars /\ cow_calls' = cow_calls)
      /\ last'.op = "data" =>
           (last'.err = NoError /\ last'.addr = get(data_ptr_) /\ last'.cow = 0)
      /\ last'.op = "data_ptr" =>
           (last'.err = NoError /\ last'.dp = data_ptr_ /\ last'.cow = 0) ]_vars

\* data_ptr() has just returned the shared buffer of a CopyOnWritePending
\* handle, which is still pending.
C6_Witness ==
  /\ last.op = "data_ptr"
  /\ access_mode = "CopyOnWritePending"
  /\ is_cow(last.dp)
  /\ last.dp = start.data_ptr_
  /\ cow_calls = 0

---------------------------------------------------------------------------
(* The construction factory: properties. *)

Devices == DeviceTypes \cup {nullopt}

make(a, d) ==
  make_storage_impl(a.size_bytes, a.data_ptr, a.allocator, a.resizable, d)

\* C7: whatever the registry holds, a make_storage_impl call without a device
\* performs no registry lookup and builds the handle with the StorageImpl
\* constructor, also when a builder is registered.
C7_NoDeviceNoLookup ==
  (last.op = "make_storage_impl" /\ last.dev = nullopt) =>
    /\ last.err = NoError
    /\ last.lookups = 0
    /\ last.defaults = 1
    /\ last.obj.by = nullptr
    /\ make(last.args, nullopt).lookups = 0
    /\ make(last.args, nullopt).obj.by = nullptr

\* A handle has just been built without a device while PrivateUse1 holds a
\* builder.
C7_Witness ==
  /\ GetStorageImplCreate(PrivateUse1) # nullptr
  /\ last.op = "make_storage_impl"
  /\ last.dev = nullopt
  /\ last.lookups = 0
  /\ last.defaults = 1
  /\ last.obj.by = nullptr

\* C8: make_storage_impl with a device whose slot holds a builder returns the
\* handle that builder makes from the size, the supplied buffer, the
\* allocator and the resizable flag as given; it constructs no default handle
\* and calls no allocator.
C8_Delegates ==
  (/\ last.op = "make_storage_impl"
   /\ last.dev \in DeviceTypes
   /\ GetStorageImplCreate(last.dev) # nullptr) =>
    /\ last.err = NoError
    /\ last.obj.by = GetStorageImplCreate(last.dev)
    /\ last.obj.size_bytes = last.args.size_bytes
    /\ last.obj.data_ptr = last.args.data_ptr
    /\ last.obj.allocator = last.args.allocator
    /\ last.obj.resizable = last.args.resizable
    /\ last.obj.alloc_from = nullptr
    /\ last.defaults = 0

\* The registered builder has just built a handle from a supplied buffer.
C8_Witness ==
  /\ last.op = "make_storage_impl"
  /\ last.dev = PrivateUse1
  /\ last.obj.by # nullptr
  /\ last.obj.by = GetStorageImplCreate(PrivateUse1)
  /\ get(last.args.data_ptr) # nullptr
  /\ last.obj.data_ptr = last.args.data_ptr
  /\ last.defaults = 0

\* C9: make_storage_impl with a device whose slot is empty raises nothing and
\* returns the handle the same arguments give without a device.
C9_FallsThrough ==
  /\ \A d \in DeviceTypes :
       GetStorageImplCreate(d) = nullptr =>
         \A a \in Args :
           LET r == make(a, d)
           IN /\ r.err = NoError
              /\ r.obj = make(a, nullopt).obj
              /\ r.defaults = 1
  /\ (/\ last.op = "make_storage_impl"
      /\ last.dev \in DeviceTypes
      /\ GetStorageImplCreate(last.dev) = nullptr) =>
       (last.err = NoError /\ last.obj.by = nullptr /\ last.defaults = 1)

\* A default handle has just been built for PrivateUse1, whose slot is empty.
C9_Witness ==
  /\ last.op = "make_storage_impl"
  /\ last.dev = PrivateUse1
  /\ GetStorageImplCreate(PrivateUse1) = nullptr
  /\ last.err = NoError
  /\ last.obj.by = nullptr
  /\ last.defaults = 1

\* C10: on the default path the allocator is called exactly when the
\* supplied buffer is null: a non-null buffer becomes the handle's buffer as
\* it is and nothing is allocated; otherwise the handle's buffer is a fresh
\* one, allocated from the given allocator for the requested size.
C10_DefaultPath ==
  (last.op = "make_storage_impl" /\ last.defaults = 1) =>
    IF get(last.args.data_ptr) # nullptr
    THEN /\ last.obj.data_ptr = last.args.data_ptr
         /\ last.obj.alloc_from = nullptr
    ELSE /\ last.obj.alloc_from = last.args.allocator
         /\ last.obj.alloc_size = last.args.size_bytes
         /\ fresh > 0
         /\ get(last.obj.data_ptr) = FreshAddr(fresh - 1)
         /\ ~(get(last.obj.data_ptr) \in 0..NumBuffers)
         /\ get(last.obj.data_ptr) # get(data_ptr_)

\* A default handle has just been built around a buffer allocated for it,
\* after another one was allocated or copied before.
C10_Witness ==
  /\ last.op = "make_storage_impl"
  /\ last.defaults = 1
  /\ get(last.args.data_ptr) = nullptr
  /\ last.obj.alloc_from = last.args.allocator
  /\ last.obj.alloc_size = last.args.size_bytes
  /\ fresh = 2
  /\ get(last.obj.data_ptr) = FreshAddr(1)

---------------------------------------------------------------------------
(* Registry and factory together: properties. *)

\* C11: after any sequence of SetStorageImplCreate calls, successful or
\* refused, every make_storage_impl call for a device type outside the
\* allow-list finds no builder and builds the handle with the StorageImpl
\* constructor.
C11_DefaultNotIntercepted ==
  /\ \A t \in DeviceTypes \ DeviceTypeAllowList :
       GetStorageImplCreate(t) = nullptr
  /\ (/\ last.op = "make_storage_impl"
      /\ last.dev \in DeviceTypes \ DeviceTypeAllowList) =>
       /\ last.err = NoError
       /\ last.obj.by = nullptr
       /\ last.defaults = 1

\* A default handle has just been built for CPU while PrivateUse1 holds a
\* builder.
C11_Witness ==
  /\ last.op = "make_storage_impl"
  /\ last.dev = "CPU"
  /\ last.obj.by = nullptr
  /\ last.defaults = 1
  /\ GetStorageImplCreate(PrivateUse1) # nullptr

---------------------------------------------------------------------------
(* The extension registry called from several threads: each statement of
   SetStorageImplCreate and GetStorageImplCreate is a step of its own. *)

Threads == 1..NumThreads

\* The calls a thread can make.
ThreadCalls ==
  [op : {"SetStorageImplCreate"}, t : DeviceTypes, fptr : FnPtrs]
  \cup [op : {"GetStorageImplCreate"}, t : DeviceTypes, fptr : {nullptr}]

\* The registry arrays sequential calls can leave behind.
Registries ==
  { [t \in DeviceTypes |-> IF t \in DeviceTypeAllowList THEN f ELSE nullptr] :
      f \in FnPtrs }

\* DeviceTypeAllowList.find(t) != DeviceTypeAllowList.end()
InAllowList(t) == t \in DeviceTypeAllowList

\* StorageImplCreate[device_type] == nullptr
SlotIsNull(t) == StorageImplCreate[t] = nullptr

\* StorageImplCreate[device_type] = fptr, with the index taken from another
\* device type: every slot is written.
StoreSlot_WrongIndex(t, fptr) == [d \in DeviceTypes |-> fptr]

\* StorageImplCreate[device_type] = fptr
StoreSlot(t, fptr) == [StorageImplCreate EXCEPT ![t] = fptr]

\* return StorageImplCreate[device_type]
LoadSlot(t) == StorageImplCreate[t]

InitRace ==
  /\ StorageImplCreate \in Registries
  /\ threads \in [Threads ->
       { [op |-> c.op, t |-> c.t, fptr |-> c.fptr, pc |-> "call",
          err |-> NoError, ret |-> nullptr, at_call |-> StorageImplCreate] :
           c \in ThreadCalls }]
  /\ data_ptr_ = NoDataPtr
  /\ has_data_ptr_check_ = FALSE
  /\ throw_on_mutable_data_ptr_ = FALSE
  /\ start = [data_ptr_ |-> NoDataPtr, throw_on_mutable_data_ptr_ |-> FALSE,
              has_data_ptr_check_ |-> FALSE]
  /\ fresh = 0
  /\ cow_calls = 0
  /\ mutable_called = FALSE
  /\ first = StorageImplCreate
  /\ last = Call("init", NoError, nullopt, nullptr, nullptr, NoDataPtr, 0, 0,
                 0, NoArgs, NoObj)

race_frame == <<handle_vars, fresh, cow_calls, mutable_called, start, first, last>>

\* SetStorageImplCreate, first TORCH_CHECK.
RegCheckAllowList ==
  \E th \in Threads :
    /\ threads[th].op = "SetStorageImplCreate"
    /\ threads[th].pc = "call"
    /\ threads' = [threads EXCEPT ![th] =
         IF InAllowList(threads[th].t)
         THEN [@ EXCEPT !.pc = "allowed"]
         ELSE [@ EXCEPT !.pc = "done", !.err = DomainNotAllowedError]]
    /\ UNCHANGED <<StorageImplCreate, race_frame>>

\* SetStorageImplCreate, second TORCH_CHECK.
RegCheckRegistered ==
  \E th \in Threads :
    /\ threads[th].pc = "allowed"
    /\ threads' = [threads EXCEPT ![th] =
         IF SlotIsNull(threads[th].t)
         THEN [@ EXCEPT !.pc = "store"]
         ELSE [@ EXCEPT !.pc = "done", !.err = AlreadyRegisteredError]]
    /\ UNCHANGED <<StorageImplCreate, race_frame>>

\* SetStorageImplCreate, the store and the return.
RegStore ==
  \E th \in Threads :
    /\ threads[th].pc = "store"
    /\ StorageImplCreate' = StoreSlot(threads[th].t, threads[th].fptr)
    /\ threads' = [threads EXCEPT ![th] = [@ EXCEPT !.pc = "done"]]
    /\ UNCHANGED race_frame

\* GetStorageImplCreate.
Lookup ==
  \E th \in Threads :
    /\ threads[th].op = "GetStorageImplCreate"
    /\ threads[th].pc = "call"
    /\ threads' = [threads EXCEPT ![th] =
         [@ EXCEPT !.pc = "done", !.ret = LoadSlot(threads[th].t)]]
    /\ UNCHANGED <<StorageImplCreate, race_frame>>

NextRace ==
  \/ RegCheckAllowList
  \/ RegCheckRegistered
  \/ RegStore
  \/ Lookup

SpecRace == InitRace /\ [][NextRace]_vars

Registering(th, t) ==
  threads[th].op = "SetStorageImplCreate" /\ threads[th].t = t

\* C12: two concurrent SetStorageImplCreate calls for the same allow-listed
\* device type, with distinct non-null builders, on an empty slot: once both
\* have returned, exactly one has succeeded, the other has raised
\* AlreadyRegisteredError, and the slot holds the builder of the one that
\* succeeded.
C12_ExactlyOneRegisters ==
  \A a, b \in Threads :
    (/\ a # b
     /\ \E t \in DeviceTypeAllowList :
          /\ Registering(a, t) /\ Registering(b, t)
          /\ threads[a].at_call[t] = nullptr
          /\ \A o \in Threads \ {a, b} : ~Registering(o, t)
     /\ threads[a].fptr # nullptr
     /\ threads[b].fptr # nullptr
     /\ threads[a].fptr # threads[b].fptr
     /\ threads[a].pc = "done"
     /\ threads[b].pc = "done") =>
      \E w \in {a, b} :
        /\ threads[w].err = NoError
        /\ \A l \in {a, b} \ {w} : threads[l].err = AlreadyRegisteredError
        /\ StorageImplCreate[threads[w].t] = threads[w].fptr

\* C13: a GetStorageImplCreate(d) that runs next to other lookups and to
\* SetStorageImplCreate calls for other device types returns what it would
\* return alone, and slot d holds that value at every point of the
\* interleaving.
C13_LookupUnaffected ==
  \A th \in Threads :
    (/\ threads[th].op = "GetStorageImplCreate"
     /\ \A o \in Threads \ {th} : ~Registering(o, threads[th].t)) =>
      /\ StorageImplCreate[threads[th].t] = threads[th].at_call[threads[th].t]
      /\ LoadSlot(threads[th].t) = threads[th].at_call[threads[th].t]
      /\ threads[th].pc = "done" =>
           threads[th].ret = threads[th].at_call[threads[th].t]

\* A lookup for CPU has returned nullptr after a registration for PrivateUse1
\* stored its builder.
C13_Witness ==
  \E th, o \in Threads :
    /\ threads[th].op = "GetStorageImplCreate"
    /\ threads[th].t = "CPU"
    /\ threads[th].pc = "done"
    /\ threads[th].ret = nullptr
    /\ Registering(o, PrivateUse1)
    /\ threads[o].fptr # nullptr
    /\ threads[o].pc = "done"
    /\ threads[o].err = NoError
    /\ StorageImplCreate[PrivateUse1] = threads[o].fptr

---------------------------------------------------------------------------
(* Handle and registry: further properties. *)

\* C14: on a handle constructed CopyOnWritePending over buffer B, the
\* mutable call that materializes returns an address other than B's, and
\* from then on data() returns that new address, not B's.
C14_NewAddress ==
  (start_mode = "CopyOnWritePending" /\ mutable_called) =>
    /\ get(data_ptr_) # get(start.data_ptr_)
    /\ data.addr = get(data_ptr_)
    /\ (last.op = "mutable_data" /\ last.cow = 1) =>
         (last.addr # get(start.data_ptr_) /\ data.addr = last.addr)
    /\ (last.op = "mutable_data_ptr" /\ last.cow = 1) =>
         (get(last.dp) # get(start.data_ptr_) /\ data.addr = get(last.dp))
    /\ last.op = "data" =>
         (last.addr # get(start.data_ptr_) /\ last.addr = get(data_ptr_))

\* data() has just returned the address of the copy made by an earlier
\* mutable call.
C14_Witness ==
  /\ start_mode = "CopyOnWritePending"
  /\ cow_calls = 1
  /\ last.op = "data"
  /\ last.addr # get(start.data_ptr_)
  /\ last.addr = get(data_ptr_)
  /\ mutable_data.addr = last.addr

\* C15: every slot of the registry starts null; a step changes a slot only
\* if it is a successful SetStorageImplCreate for that slot's device type,
\* which stores its builder there; refused registrations, lookups and
\* make_storage_impl change no slot, and a non-null slot never changes.
C15_RegistryFrame ==
  /\ \A d \in DeviceTypes : StorageImplCreate[d] = nullptr
  /\ [][ \A d \in DeviceTypes :
           /\ StorageImplCreate'[d] # StorageImplCreate[d] =>
                /\ last'.op = "SetStorageImplCreate"
                /\ last'.err = NoError
                /\ last'.dev = d
                /\ StorageImplCreate'[d] = last'.fptr
           /\ StorageImplCreate[d] # nullptr =>
                StorageImplCreate'[d] = StorageImplCreate[d]
           /\ (last'.op = "SetStorageImplCreate" /\ last'.err # NoError) =>
                StorageImplCreate' = StorageImplCreate
           /\ last'.op \in {"GetStorageImplCreate", "make_storage_impl"} =>
                StorageImplCreate' = StorageImplCreate ]_vars

\* A registration for the registered PrivateUse1 has just been refused and
\* the slot holds the first builder.
C15_Witness ==
  /\ last.op = "SetStorageImplCreate"
  /\ last.dev = PrivateUse1
  /\ last.fptr = nullptr
  /\ last.err = AlreadyRegisteredError
  /\ StorageImplCreate[PrivateUse1] # nullptr
  /\ StorageImplCreate[PrivateUse1] = first[PrivateUse1]

\* C16: SetStorageImplCreate(t, nullptr) for an allow-listed t with a null
\* slot succeeds and leaves the slot null; after it a SetStorageImplCreate
\* with any non-null builder still succeeds and stores it, and until then
\* make_storage_impl for t builds the default handle.
C16_NullRegistration ==
  \A t \in DeviceTypeAllowList :
    /\ GetStorageImplCreate(t) = nullptr =>
         /\ SetStorageImplCreate(t, nullptr).err = NoError
         /\ SetStorageImplCreate(t, nullptr).StorageImplCreate[t] = nullptr
    /\ (/\ last.op = "SetStorageImplCreate"
        /\ last.dev = t
        /\ last.fptr = nullptr
        /\ first[t] = nullptr) =>
         /\ last.err = NoError
         /\ GetStorageImplCreate(t) = nullptr
         /\ \A b \in Builders :
              /\ SetStorageImplCreate(t, b).err = NoError
              /\ SetStorageImplCreate(t, b).StorageImplCreate[t] = b
         /\ \A a \in Args :
              (make(a, t).defaults = 1 /\ make(a, t).obj.by = nullptr)
    /\ (/\ last.op = "make_storage_impl"
        /\ last.dev = t
        /\ GetStorageImplCreate(t) = nullptr) =>
         /\ last.defaults = 1
         /\ \A b \in Builders : SetStorageImplCreate(t, b).err = NoError

\* A null registration for PrivateUse1 has just succeeded.
C16_Witness ==
  /\ last.op = "SetStorageImplCreate"
  /\ last.dev = PrivateUse1
  /\ last.fptr = nullptr
  /\ last.err = NoError
  /\ GetStorageImplCreate(PrivateUse1) = nullptr
  /\ SetStorageImplCreate(PrivateUse1, 1).err = NoError

\* C17: a mutable_data()/mutable_data_ptr() call that raises
\* NullDataAccessError materializes nothing and leaves the buffer and the
\* flags as they were, also on a handle that is both strict and
\* copy-on-write.
C17_ThrowBeforeMaterialize ==
  [][ (last'.op \in MutableOps /\ last'.err = NullDataAccessError) =>
        /\ UNCHANGED handle_vars
        /\ cow_calls' = cow_calls
        /\ fresh' = fresh
        /\ last'.cow = 0 ]_vars

\* A mutable call has just been refused on a strict handle whose buffer is
\* still the shared copy-on-write one.
C17_Witness ==
  /\ last.op \in MutableOps
  /\ last.err = NullDataAccessError
  /\ throw_on_mutable_data_ptr_
  /\ is_cow(data_ptr_)
  /\ data_ptr_ = start.data_ptr_
  /\ cow_calls = 0

---------------------------------------------------------------------------
(* The mutable accessors as functions of the three fields they read: the
   handle starts with any combination of has_data_ptr_check_,
   throw_on_mutable_data_ptr_ and copy-on-write buffer, after any number of
   buffers handed out to others. *)

FlagHandles ==
  { h \in [data_ptr_ : {DataPtr(a, c) : a \in 0..NumBuffers, c \in {"plain", "cow"}},
           throw_on_mutable_data_ptr_ : BOOLEAN,
           has_data_ptr_check_ : BOOLEAN] :
      is_cow(h.data_ptr_) => get(h.data_ptr_) # nullptr }

InitFlags ==
  /\ StorageImplCreate = [t \in DeviceTypes |-> nullptr]
  /\ \E h \in FlagHandles :
       /\ data_ptr_ = h.data_ptr_
       /\ has_data_ptr_check_ = h.has_data_ptr_check_
       /\ throw_on_mutable_data_ptr_ = h.throw_on_mutable_data_ptr_
       /\ start = h
  /\ fresh \in 0..(MaxFresh - 1)
  /\ cow_calls = 0
  /\ mutable_called = FALSE
  /\ first = [t \in DeviceTypes |-> nullptr]
  /\ threads = <<>>
  /\ last = Call("init", NoError, nullopt, nullptr, nullptr, NoDataPtr, 0, 0,
                 0, NoArgs, NoObj)

NextFlags ==
  \/ CallMutableDataPtr
  \/ CallMutableData
  \/ CallDataPtr
  \/ CallData

SpecFlags == InitFlags /\ [][NextFlags]_vars

\* C18: for every combination of has_data_ptr_check_,
\* throw_on_mutable_data_ptr_ and copy-on-write buffer, mutable_data() and
\* mutable_data_ptr() both raise or both return, leave the same buffer and
\* flags behind, materialize alike, and the address mutable_data() returns
\* is the one held by the DataPtr mutable_data_ptr() returns.
C18_SameOperation ==
  /\ mutable_data.err = mutable_data_ptr.err
  /\ mutable_data.data_ptr_ = mutable_data_ptr.data_ptr_
  /\ mutable_data.has_data_ptr_check_ = mutable_data_ptr.has_data_ptr_check_
  /\ mutable_data.cow = mutable_data_ptr.cow
  /\ mutable_data.err = NoError =>
       mutable_data.addr = get(mutable_data_ptr.dp)
  /\ (last.op = "mutable_data" /\ last.err = NoError) =>
       (mutable_data_ptr.err = NoError /\ get(mutable_data_ptr.dp) = last.addr)
  /\ (last.op = "mutable_data_ptr" /\ last.err = NoError) =>
       (mutable_data.err = NoError /\ mutable_data.addr = get(last.dp))

\* mutable_data() has just materialized, and mutable_data_ptr() now returns
\* the buffer at the address it returned.
C18_Witness ==
  /\ last.op = "mutable_data"
  /\ last.cow = 1
  /\ mutable_data_ptr.err = NoError
  /\ get(mutable_data_ptr.dp) = last.addr
  /\ last.addr # get(start.data_ptr_)

\* C19: with has_data_ptr_check_ false, mutable_data() and
\* mutable_data_ptr() raise nothing, materialize nothing and return the
\* current buffer, whatever throw_on_mutable_data_ptr_ and the buffer are;
\* so a mutable access is refused, or a shared buffer copied, only in states
\* where has_data_ptr_check_ is true.
C19_FastPathGate ==
  /\ ~has_data_ptr_check_ =>
       /\ mutable_data.err = NoError
       /\ mutable_data.cow = 0
       /\ mutable_data.data_ptr_ = data_ptr_
       /\ mutable_data.has_data_ptr_check_ = has_data_ptr_check_
       /\ mutable_data.addr = get(data_ptr_)
       /\ mutable_data_ptr.err = NoError
       /\ mutable_data_ptr.cow = 0
       /\ mutable_data_ptr.data_ptr_ = data_ptr_
       /\ mutable_data_ptr.has_data_ptr_check_ = has_data_ptr_check_
       /\ mutable_data_ptr.dp = data_ptr_
  /\ (mutable_data.err = NullDataAccessError \/ mutable_data.cow = 1) =>
       has_data_ptr_check_
  /\ (mutable_data_ptr.err = NullDataAccessError \/ mutable_data_ptr.cow = 1) =>
       has_data_ptr_check_
  /\ (last.op \in MutableOps /\ ~start.has_data_ptr_check_) =>
       /\ last.err = NoError
       /\ last.cow = 0
       /\ data_ptr_ = start.data_ptr_

\* mutable_data() has just returned the shared buffer of a handle that is
\* marked strict and copy-on-write but has has_data_ptr_check_ false.
C19_Witness ==
  /\ ~has_data_ptr_check_
  /\ throw_on_mutable_data_ptr_
  /\ is_cow(data_ptr_)
  /\ last.op = "mutable_data"
  /\ last.err = NoError
  /\ last.addr = get(start.data_ptr_)
  /\ cow_calls = 0

====
